---- MODULE Spec2Model ----
(***************************************************************************)
(* Model of fmriprep/workflows/bold/fit.py: the construction of the BOLD   *)
(* "fit" workflow graph (init_bold_fit_wf) and the helpers it relies on    *)
(* (extract_entities, get_sbrefs, get_estimator, _select_ref).             *)
(*                                                                         *)
(* Python values that may be either a scalar or a list are modelled as     *)
(* records [islist, items]; a call that raises is modelled by a result     *)
(* whose err field names the exception.  The BIDS layout, the estimator    *)
(* registry and the sub-workflow constructors are external: the layout's   *)
(* answers and the registry's content are inputs, and a node built by an   *)
(* external constructor is recorded with the name the source gives it.     *)
(***************************************************************************)
EXTENDS Integers, Sequences, FiniteSets, TLC

VARIABLES
    pc,             \* position in the modelled call
    args,           \* arguments of the call and the answers of its environment
    ret,            \* value returned by a helper called on its own
    bold_files,     \* fit.py:99   local of init_bold_fit_wf
    sbref_files,    \* fit.py:103
    has_fieldmap,   \* fit.py:90   parameter, reassigned at fit.py:127
    estimator_key,  \* fit.py:117
    created,        \* every node or sub-workflow object constructed, in order
    wfnodes,        \* objects added to the workflow (add_nodes / connect)
    edges,          \* connections made with workflow.connect, in order
    assigned,       \* direct assignments to node inputs, in order
    log,            \* diagnostics emitted through config.loggers.workflow
    err             \* exception that ended the call, or "none"

vars == <<pc, args, ret, bold_files, sbref_files, has_fieldmap, estimator_key,
          created, wfnodes, edges, assigned, log, err>>

----------------------------------------------------------------------------
(* Bounds of the model *)

\* longest list of files handed to extract_entities
MaxFiles == 3
\* largest run / echo index appearing in a file name
MaxIndex == 2
\* longest answer of the layout to the sbref query
MaxSbrefs == 3
\* number of distinct EchoTime values in the metadata
MaxEchoTime == 3

----------------------------------------------------------------------------
(* Python values *)

Scalar(x) == [islist |-> FALSE, items |-> <<x>>]

List(s) == [islist |-> TRUE, items |-> s]

\* None, and a value that is present
None == <<>>

Some(x) == <<x>>

Range(s) == {s[i] : i \in 1..Len(s)}

\* niworkflows.utils.connections.listify as used here: a string becomes a
\* one-element list, a list stays as it is
listify(v) == v.items

\* result of a call: either a value or an exception
Ok(v) == [err |-> "none", val |-> v]

Raise(e) == [err |-> e, val |-> <<>>]

----------------------------------------------------------------------------
(* sorted(), as Python computes it *)

EchoTimeOf(f) == f.meta.EchoTime

\* insertion point that keeps files of equal EchoTime in their original order
RECURSIVE InsertByEchoTime(_, _)
InsertByEchoTime(x, s) ==
    IF s = <<>> THEN <<x>>
    ELSE IF EchoTimeOf(x)[1] < EchoTimeOf(s[1])[1] THEN <<x>> \o s
    ELSE <<s[1]>> \o InsertByEchoTime(x, Tail(s))

RECURSIVE StableSortByEchoTime(_)
StableSortByEchoTime(s) ==
    IF s = <<>> THEN <<>>
    ELSE InsertByEchoTime(s[Len(s)], StableSortByEchoTime(SubSeq(s, 1, Len(s) - 1)))

\* sorted(files, key=lambda fname: layout.get_metadata(fname).get("EchoTime")):
\* a list of two or more files compares keys, and None does not compare
SortedByEchoTime(files) ==
    IF Len(files) >= 2 /\ \E i \in 1..Len(files) : EchoTimeOf(files[i]) = None
    THEN Raise("TypeError: EchoTime")
    ELSE IF Len(files) < 2 THEN Ok(files)
    ELSE Ok(StableSortByEchoTime(files))

\* sorted(set(inlist)) for a set of mutually comparable values; a single
\* value needs no comparison
RECURSIVE SortedSet(_)
SortedSet(S) ==
    IF S = {} THEN <<>>
    ELSE IF Cardinality(S) = 1 THEN <<CHOOSE x \in S : TRUE>>
    ELSE LET m == CHOOSE x \in S : \A y \in S : x <= y
         IN <<m>> \o SortedSet(S \ {m})

----------------------------------------------------------------------------
(* extract_entities *)

\* bids.layout.parse_file_entities: the entities a file name carries
parse_file_entities(f) == f.ent

\* entities[e] after the loop: the values of e over the files, in list order
RECURSIVE EntityValues(_, _)
EntityValues(files, e) ==
    IF files = <<>> THEN <<>>
    ELSE LET ents == parse_file_entities(files[1])
         IN (IF e \in DOMAIN ents THEN <<ents[e]>> ELSE <<>>)
            \o EntityValues(Tail(files), e)

EntityKeys(files) ==
    UNION {DOMAIN parse_file_entities(files[i]) : i \in 1..Len(files)}

\* variant of unique that drops duplicates but keeps the order of first
\* occurrence instead of sorting
RECURSIVE FirstOccurrences(_)
FirstOccurrences(inlist) ==
    IF inlist = <<>> THEN <<>>
    ELSE LET front == FirstOccurrences(SubSeq(inlist, 1, Len(inlist) - 1))
             x == inlist[Len(inlist)]
         IN IF x \in Range(front) THEN front ELSE Append(front, x)

_unique_unsorted(inlist) ==
    LET s == FirstOccurrences(inlist)
    IN IF Len(s) = 1 THEN Scalar(s[1]) ELSE List(s)

_unique(inlist) ==
    LET s == SortedSet(Range(inlist))
    IN IF Len(s) = 1 THEN Scalar(s[1]) ELSE List(s)

extract_entities(file_list) ==
    LET files == listify(file_list)
    IN [k \in EntityKeys(files) |-> _unique(EntityValues(files, k))]

----------------------------------------------------------------------------
(* get_sbrefs *)

\* dict.update: the keys of e replace or extend those of d
Update(d, e) ==
    [k \in DOMAIN d \cup DOMAIN e |-> IF k \in DOMAIN e THEN e[k] ELSE d[k]]

\* dict.pop(key) on a dict that holds the key
Pop(d, key) == [k \in DOMAIN d \ {key} |-> d[k]]

\* keyword arguments written out in the call entities.update(...)
SbrefKeywords ==
    [suffix |-> Scalar("sbref"), extension |-> List(<<".nii", ".nii.gz">>)]

\* the entities handed to layout.get, when building them raises nothing
SbrefQuery(bfiles, entity_overrides) ==
    Update(Update(Pop(extract_entities(List(bfiles)), "echo"), SbrefKeywords),
           entity_overrides)

\* layout.get(return_type="file", **entities): the layout's answer
layout_get(layout, query) == layout.sbrefs

get_sbrefs(bfiles, entity_overrides, layout) ==
    LET entities == extract_entities(List(bfiles))
    IN IF "echo" \notin DOMAIN entities
       THEN Raise("KeyError: echo")         \* entities.pop("echo")
       ELSE IF DOMAIN SbrefKeywords \cap DOMAIN entity_overrides # {}
       THEN Raise("TypeError: update")     \* a keyword given twice to update()
       ELSE SortedByEchoTime(
                layout_get(layout, SbrefQuery(bfiles, entity_overrides)))

----------------------------------------------------------------------------
(* get_estimator and _select_ref *)

\* sdcflows.fieldmaps.get_identifier on the file's IntendedFor path
get_identifier(layout, f) == layout.intended_for

get_estimator(layout, f) ==
    LET meta == f.meta.B0FieldSource
        field_source ==
            IF meta # None /\ ~meta[1].islist
            THEN Some(<<meta[1].items[1]>>)     \* (field_source,)
            ELSE IF meta # None THEN Some(meta[1].items)
            ELSE None
    IN IF field_source = None
       THEN get_identifier(layout, f)
       ELSE field_source[1]

\* Python truth value of a string or a list
Truthy(v) == v.items # <<>>

_select_ref(sbrefs, boldref) ==
    LET refs == IF Truthy(sbrefs) THEN sbrefs ELSE boldref
    IN IF listify(refs) = <<>> THEN Raise("IndexError")
       ELSE Ok(listify(refs)[1])

----------------------------------------------------------------------------
(* Files, metadata and dictionaries the calls are given *)

EmptyDict == [k \in {} |-> Scalar(0)]

NoFieldSource == [EchoTime |-> None, B0FieldSource |-> None]

\* entities of a file name sub-01[_run-<r>][_echo-<e>]_<suffix>.nii.gz;
\* index 0 stands for a name without that entity
Entities(r, e, suffix) ==
    [k \in {"subject", "suffix", "extension"}
           \cup (IF r > 0 THEN {"run"} ELSE {})
           \cup (IF e > 0 THEN {"echo"} ELSE {}) |->
        CASE k = "subject" -> "01"
          [] k = "suffix" -> suffix
          [] k = "extension" -> ".nii.gz"
          [] k = "run" -> r
          [] k = "echo" -> e]

File(r, e, suffix, meta) == [ent |-> Entities(r, e, suffix), meta |-> meta]

EchoTimes == {None} \cup {Some(t) : t \in 1..MaxEchoTime}

\* sequences without repetition over S, of length at most n
RECURSIVE InjectiveSeqs(_, _)
InjectiveSeqs(S, n) ==
    IF n = 0 THEN {<<>>}
    ELSE LET shorter == InjectiveSeqs(S, n - 1)
         IN shorter \cup {Append(q, x) : <<q, x>> \in
                            {<<q, x>> \in shorter \X S : x \notin Range(q)}}

\* sequences over S of length at most n
RECURSIVE SeqsUpTo(_, _)
SeqsUpTo(S, n) ==
    IF n = 0 THEN {<<>>}
    ELSE LET shorter == SeqsUpTo(S, n - 1)
         IN shorter \cup {Append(q, x) : <<q, x>> \in shorter \X S}

----------------------------------------------------------------------------
(* State shared by the specifications *)

Idle ==
    /\ ret = Ok(<<>>)
    /\ bold_files = <<>>
    /\ sbref_files = <<>>
    /\ has_fieldmap = FALSE
    /\ estimator_key = None
    /\ created = <<>>
    /\ wfnodes = {}
    /\ edges = <<>>
    /\ assigned = <<>>
    /\ log = <<>>
    /\ err = "none"

----------------------------------------------------------------------------
(* extract_entities called on its own *)

EntityFiles ==
    {File(r, e, "T1w", NoFieldSource) : r \in 0..MaxIndex, e \in 0..MaxIndex}

EntityInputs ==
    {Scalar(f) : f \in EntityFiles}
        \cup {List(q) : q \in SeqsUpTo(EntityFiles, MaxFiles)}

InitEntities ==
    /\ pc = "extract_entities"
    /\ args \in {[file_list |-> l] : l \in EntityInputs}
    /\ Idle

ExtractEntitiesCall ==
    /\ pc = "extract_entities"
    /\ ret' = Ok(extract_entities(args.file_list))
    /\ pc' = "returned"
    /\ UNCHANGED <<args, bold_files, sbref_files, has_fieldmap, estimator_key,
                   created, wfnodes, edges, assigned, log, err>>

NextEntities == ExtractEntitiesCall

SpecEntities == InitEntities /\ [][NextEntities]_vars

\* C9: for a non-empty list of files, extract_entities maps every entity key
\* that occurs in some file, and no other, to the single observed value when
\* all occurrences agree and otherwise to the strictly ascending (hence
\* duplicate-free) list of exactly the observed values; a list that repeats
\* one file gives what that file alone gives; two files that differ only in
\* run 1 and run 2 give run -> [1, 2] and a scalar for every other key.
C9_ExtractEntitiesCollapses ==
    (pc = "returned" /\ listify(args.file_list) # <<>>) =>
        LET files == listify(args.file_list)
            res == ret.val
            Observed(k) == {files[i].ent[k] :
                              i \in {j \in 1..Len(files) : k \in DOMAIN files[j].ent}}
        IN /\ ret.err = "none"
           /\ DOMAIN res = UNION {DOMAIN files[i].ent : i \in 1..Len(files)}
           /\ \A k \in DOMAIN res :
                IF Cardinality(Observed(k)) = 1
                THEN res[k] = Scalar(CHOOSE v \in Observed(k) : TRUE)
                ELSE /\ res[k].islist
                     /\ Range(res[k].items) = Observed(k)
                     /\ \A i, j \in 1..Len(res[k].items) :
                            i < j => res[k].items[i] < res[k].items[j]
           /\ (\A i \in 1..Len(files) : files[i] = files[1]) =>
                  res = extract_entities(Scalar(files[1]))
           /\ (/\ Len(files) = 2
               /\ DOMAIN files[1].ent = DOMAIN files[2].ent
               /\ "run" \in DOMAIN files[1].ent
               /\ {files[1].ent["run"], files[2].ent["run"]} = {1, 2}
               /\ \A k \in DOMAIN files[1].ent \ {"run"} :
                      files[1].ent[k] = files[2].ent[k]) =>
                  /\ res["run"] = List(<<1, 2>>)
                  /\ \A k \in DOMAIN res \ {"run"} : ~res[k].islist

\* C9 witness: run-2 file listed before the run-1 file, and a repeated file
C9_Witness ==
    /\ pc = "returned"
    /\ Len(listify(args.file_list)) = 3
    /\ listify(args.file_list)[1].ent = Entities(2, 0, "T1w")
    /\ listify(args.file_list)[2].ent = Entities(1, 0, "T1w")
    /\ listify(args.file_list)[3].ent = Entities(2, 0, "T1w")
    /\ ret.val["run"] = List(<<1, 2>>)
    /\ ret.val["subject"] = Scalar("01")

----------------------------------------------------------------------------
(* get_sbrefs called on its own *)

EchoMeta(te) == [EchoTime |-> te, B0FieldSource |-> None]

\* bold series: one file without an echo entity, or echoes 1..n
BoldLists ==
    {<<File(0, 0, "bold", EchoMeta(Some(1)))>>}
        \cup {[i \in 1..n |-> File(0, i, "bold", EchoMeta(Some(i)))] :
                n \in 1..MaxIndex}

\* answers of the layout: distinct sbref files in any order, each with an
\* EchoTime or none
SbrefAnswers ==
    {[i \in 1..Len(q) |-> File(0, q[i], "sbref", EchoMeta(te[q[i]]))] :
        <<q, te>> \in InjectiveSeqs(1..MaxSbrefs, MaxSbrefs)
                        \X [1..MaxSbrefs -> EchoTimes]}

OverrideDicts ==
    {EmptyDict, [run |-> Scalar(1)], [suffix |-> Scalar("epi")]}

InitSbrefs ==
    /\ pc = "get_sbrefs"
    /\ args \in {[bold_files |-> b, entity_overrides |-> o,
                  layout |-> [sbrefs |-> a, intended_for |-> <<>>]] :
                    b \in BoldLists, o \in OverrideDicts, a \in SbrefAnswers}
    /\ Idle

GetSbrefsCall ==
    /\ pc = "get_sbrefs"
    /\ ret' = get_sbrefs(args.bold_files, args.entity_overrides, args.layout)
    /\ pc' = "returned"
    /\ UNCHANGED <<args, bold_files, sbref_files, has_fieldmap, estimator_key,
                   created, wfnodes, edges, assigned, log, err>>

NextSbrefs == GetSbrefsCall

SpecSbrefs == InitSbrefs /\ [][NextSbrefs]_vars

\* C8: for every list of bold files, override mapping and layout, get_sbrefs
\* returns exactly the files the layout answered, in ascending EchoTime
\* order, files of equal EchoTime keeping the order of the answer.
C8_SbrefsSortedByEchoTime ==
    pc = "returned" =>
        LET answer == args.layout.sbrefs
            out == ret.val
        IN /\ ret.err = "none"
           /\ Len(out) = Len(answer)
           /\ Range(out) = Range(answer)
           /\ \A i, j \in 1..Len(out) :
                i < j => EchoTimeOf(out[i])[1] <= EchoTimeOf(out[j])[1]
           /\ \A i, j \in 1..Len(answer) :
                (i < j /\ EchoTimeOf(answer[i]) = EchoTimeOf(answer[j])) =>
                    \E a, b \in 1..Len(out) :
                        a < b /\ out[a] = answer[i] /\ out[b] = answer[j]

----------------------------------------------------------------------------
(* init_bold_fit_wf: the state of one call *)

\* the locals and the graph under construction, as one record
Frame ==
    [pc |-> pc, bold_files |-> bold_files, sbref_files |-> sbref_files,
     has_fieldmap |-> has_fieldmap, estimator_key |-> estimator_key,
     created |-> created, wfnodes |-> wfnodes, edges |-> edges,
     assigned |-> assigned, log |-> log, err |-> err]

InitFrame(a) ==
    [pc |-> "collect", bold_files |-> <<>>, sbref_files |-> <<>>,
     has_fieldmap |-> a.has_fieldmap, estimator_key |-> None,
     created |-> <<>>, wfnodes |-> {}, edges |-> <<>>,
     assigned |-> <<>>, log |-> <<>>, err |-> "none"]

\* an exception leaves the function: nothing is returned
Fail(f, e) == [f EXCEPT !.err = e, !.pc = "failed"]

\* config.loggers.workflow.<level>(msg)
Log(f, level, msg) ==
    [f EXCEPT !.log = Append(@, [level |-> level, msg |-> msg])]

\* pe.Node(..., name=name) or an init_*_wf(...) call bound to variable obj
Create(f, obj, name) ==
    [f EXCEPT !.created = Append(@, [obj |-> obj, name |-> name])]

\* <obj>.inputs.<field> = value
Assign(f, obj, field, value) ==
    [f EXCEPT !.assigned = Append(@, [obj |-> obj, field |-> field, value |-> value])]

Edge(src, out, dst, inp) == [src |-> src, out |-> out, dst |-> dst, inp |-> inp]

\* workflow.connect([...]): the edges are recorded and both ends join the
\* graph; whether the execution engine accepts a connection is decided
\* outside this file, so every requested edge is kept as written
Connect(f, es) ==
    [f EXCEPT !.edges = @ \o es,
              !.wfnodes = @ \cup {es[i].src : i \in 1..Len(es)}
                            \cup {es[i].dst : i \in 1..Len(es)}]

\* names bound when the body of init_bold_fit_wf runs: its parameters, the
\* locals it assigns, and the names the module imports or defines
BoundNames ==
    {"bold_series", "precomputed", "has_fieldmap", "omp_nthreads",
     "layout", "bold_files", "sbref_files", "bold_file", "sbref_file",
     "multiecho", "estimator_key", "have_hmcref", "have_hmc", "have_coregref",
     "transforms", "coreg_xfm", "workflow", "inputnode", "hmcref_buffer",
     "fmapref_buffer", "hmc_buffer", "fmapreg_buffer", "regref_buffer",
     "config", "pe", "niu", "ty", "bids", "nb", "np", "listify",
     "ValidateImage", "DerivativesDataSink", "FunctionalSummary",
     "init_unwarp_wf", "init_coeff2epi_wf", "init_bold_hmc_wf",
     "init_ds_boldref_wf", "init_ds_hmc_wf", "init_enhance_boldref_wf",
     "init_raw_boldref_wf", "init_bold_reg_wf", "get_sbrefs",
     "init_bold_fit_wf", "_create_mem_gb", "_get_wf_name", "_to_join",
     "extract_entities", "get_img_orientation", "get_estimator", "_select_ref"}

\* input fields each node built in this file declares
DeclaredInputs(obj) ==
    CASE obj = "inputnode" ->
            {"bold_file", "t1w_preproc", "t1w_mask", "t1w_dseg",
             "subjects_dir", "subject_id", "fsnative2t1w_xfm"}
      [] obj = "hmcref_buffer" -> {"boldref", "bold_file"}
      [] obj = "fmapref_buffer" -> {"sbref_files", "boldref_files"}
      [] obj = "hmc_buffer" -> {"hmc_xforms"}
      [] obj = "fmapreg_buffer" -> {"boldref2fmap_xform"}
      [] obj = "regref_buffer" -> {"boldref"}
      [] OTHER -> {}

Buffers ==
    {"hmcref_buffer", "fmapref_buffer", "hmc_buffer", "fmapreg_buffer",
     "regref_buffer"}

\* the locals of lines 137-147
have_hmcref(a) == "hmc_boldref" \in DOMAIN a.precomputed

have_hmc(a) == "hmc_xforms" \in DOMAIN a.precomputed

\* variant of have_coregref that looks the artifact up under another key
have_coregref_wrongkey(a) == "coregref" \in DOMAIN a.precomputed

have_coregref(a) == "coreg_boldref" \in DOMAIN a.precomputed

\* precomputed.get("transforms", {})
transforms(a) == IF a.transforms = None THEN EmptyDict ELSE a.transforms[1]

----------------------------------------------------------------------------
(* init_bold_fit_wf: one operator per block of the function *)

\* lines 96-115: the bold files and their sbrefs, sorted by EchoTime
CollectFilesOp(a, f) ==
    LET bolds == SortedByEchoTime(listify(a.bold_series))
    IN IF bolds.err # "none" THEN Fail(f, bolds.err)
       ELSE LET g == [f EXCEPT !.bold_files = bolds.val]
                sbrefs == get_sbrefs(bolds.val, a.bids_filters_sbref, a.layout)
            IN IF sbrefs.err # "none" THEN Fail(g, sbrefs.err)
               ELSE LET h == [g EXCEPT !.sbref_files = sbrefs.val]
                    IN IF sbrefs.val = <<>>
                       THEN Fail(h, "IndexError: sbref_files[0]")
                       ELSE [h EXCEPT !.pc = "estimator"]

\* variant of the demotion at line 127 that leaves has_fieldmap as the
\* caller passed it
Demote_kept(f) == f

\* line 127: has_fieldmap = False
Demote(f) == [f EXCEPT !.has_fieldmap = FALSE]

\* lines 117-135: the fieldmap estimators still registered
SelectEstimatorOp(a, f) ==
    IF ~f.has_fieldmap THEN [f EXCEPT !.pc = "buffers"]
    ELSE LET Registered(key) == key \in a.estimators
             keys == SelectSeq(get_estimator(a.layout, f.bold_files[1]),
                               Registered)
             g == [f EXCEPT !.estimator_key = Some(keys), !.pc = "buffers"]
         IN IF keys = <<>>
            THEN Log(Demote(g), "critical",
                     "None of the available B0 fieldmaps are associated")
            ELSE Log(g, "info", "Found usable B0-map (fieldmap) estimator(s)")

\* lines 149-178: the workflow, its input node and the five buffers
CreateBuffersOp(a, f) ==
    LET f1 == Create(f, "inputnode", "inputnode")
        f2 == Assign(f1, "inputnode", "bold_file", a.bold_series)
        f3 == [f2 EXCEPT !.wfnodes = @ \cup {"inputnode"}]
        f4 == Create(f3, "hmcref_buffer", "hmcref_buffer")
        f5 == Create(f4, "fmapref_buffer", "fmapref_buffer")
        f6 == Create(f5, "hmc_buffer", "hmc_buffer")
        f7 == Create(f6, "fmapreg_buffer", "hmc_buffer")
        f8 == Create(f7, "regref_buffer", "regref_buffer")
    IN [f8 EXCEPT !.pc = "stage1"]

\* lines 180-211
Stage1Op(a, f) ==
    IF ~have_hmcref(a)
    THEN LET f1 == Log(f, "info", "Stage 1: Adding HMC boldref workflow")
             f2 == Create(f1, "hmc_boldref_wf", "hmc_boldref_wf")
             f3 == Assign(f2, "hmc_boldref_wf", "inputnode.dummy_scans",
                          "config.workflow.dummy_scans")
             f4 == Create(f3, "ds_hmc_boldref_wf", "ds_hmc_boldref_wf")
             f5 == Connect(f4, <<
                     Edge("hmc_boldref_wf", "outputnode.bold_file",
                          "hmcref_buffer", "bold_file"),
                     Edge("hmc_boldref_wf", "outputnode.boldref",
                          "ds_hmc_boldref_wf", "inputnode.boldref"),
                     Edge("ds_hmc_boldref_wf", "outputnode.boldref",
                          "hmcref_buffer", "boldref")>>)
         IN [f5 EXCEPT !.pc = "stage2"]
    ELSE LET f1 == Log(f, "info", "Found HMC boldref - skipping Stage 1")
             f2 == Create(f1, "validate_bold", "validate_bold")
             f3 == Assign(f2, "validate_bold", "in_file", f.bold_files[1])
             f4 == Connect(f3, <<
                     Edge("validate_bold", "out_file",
                          "hmcref_buffer", "bold_file")>>)
             f5 == Assign(f4, "hmcref_buffer", "boldref",
                          a.precomputed["hmc_boldref"])
         IN [f5 EXCEPT !.pc = "stage2"]

\* lines 213-237: the arguments of init_bold_hmc_wf read mem_gb, a name the
\* function never binds, so the compute branch ends at line 217
Stage2Op(a, f) ==
    IF ~have_hmc(a)
    THEN LET f1 == Log(f, "info", "Stage 2: Adding motion correction workflow")
         IN IF "mem_gb" \notin BoundNames
            THEN Fail(f1, "NameError: mem_gb")
            ELSE \* lines 231-232: a tuple followed by a parenthesised tuple
                 Fail(Create(Create(f1, "bold_hmc_wf", "bold_hmc_wf"),
                             "ds_hmc_wf", "ds_hmc_wf"),
                      "TypeError: tuple object is not callable")
    ELSE LET f1 == Log(f, "info",
                       "Found motion correction transforms - skipping Stage 2")
             f2 == Assign(f1, "hmc_buffer", "hmc_xforms",
                          a.precomputed["hmc_xforms"])
         IN [f2 EXCEPT !.pc = "stage3"]

\* variant of OutputSelect that takes the last registered identifier
OutputSelect_last(f, obj) ==
    LET keys == f.estimator_key[1]
        f1 == Create(f, obj, "output_select")
    IN IF keys = <<>> THEN Fail(f1, "IndexError: estimator_key[0]")
       ELSE LET f2 == Assign(f1, obj, "key", keys[Len(keys)])
            IN IF Len(keys) > 1
               THEN Log(f2, "warning", "Several fieldmaps are IntendedFor")
               ELSE f2

\* lines 269-279 and 331-341: the KeySelect node and its key
OutputSelect(f, obj) ==
    LET keys == f.estimator_key[1]
        f1 == Create(f, obj, "output_select")
    IN IF keys = <<>> THEN Fail(f1, "IndexError: estimator_key[0]")
       ELSE LET f2 == Assign(f1, obj, "key", keys[1])
            IN IF Len(keys) > 1
               THEN Log(f2, "warning", "Several fieldmaps are IntendedFor")
               ELSE f2
\* lines 239-325
Stage3Op(a, f) ==
    IF ~have_coregref(a)
    THEN LET f1 == Log(f, "info",
                       "Stage 3: Adding coregistration boldref workflow")
             f2 == Assign(f1, "fmapref_buffer", "sbref_file", f.sbref_files[1])
             f3 == Create(f2, "enhance_boldref_wf", "enhance_boldref_wf")
             f4 == Connect(f3, <<
                     Edge("hmcref_buffer", "boldref", "fmapref_buffer", "boldref"),
                     Edge("fmapref_buffer", "out",
                          "enhance_boldref_wf", "inputnode.boldref")>>)
         IN IF f.has_fieldmap
            THEN LET g1 == Create(f4, "coeff2epi_wf", "coeff2epi_wf")
                     g2 == Create(g1, "unwarp_wf", "unwarp_wf")
                     g3 == Assign(g2, "unwarp_wf", "inputnode.metadata",
                                  f.bold_files[1].meta)
                     g4 == OutputSelect(g3, "output_select@269")
                     g5 == Connect(g4, <<
                             Edge("inputnode", "fmap", "output_select@269", "fmap"),
                             Edge("inputnode", "fmap_ref",
                                  "output_select@269", "fmap_ref"),
                             Edge("inputnode", "fmap_coeff",
                                  "output_select@269", "fmap_coeff"),
                             Edge("inputnode", "fmap_mask",
                                  "output_select@269", "fmap_mask"),
                             Edge("inputnode", "sdc_method",
                                  "output_select@269", "sdc_method"),
                             Edge("inputnode", "fmap_id",
                                  "output_select@269", "keys"),
                             Edge("output_select@269", "fmap_ref",
                                  "coeff2epi_wf", "inputnode.fmap_ref"),
                             Edge("output_select@269", "fmap_coeff",
                                  "coeff2epi_wf", "inputnode.fmap_coeff"),
                             Edge("output_select@269", "fmap_mask",
                                  "coeff2epi_wf", "inputnode.fmap_mask"),
                             Edge("coeff2epi_wf", "target2fmap_xfm",
                                  "fmapreg_buffer", "boldref2fmap_xfm"),
                             Edge("enhance_boldref_wf", "outputnode.boldref",
                                  "coeff2epi_wf", "inputnode.target_ref"),
                             Edge("enhance_boldref_wf", "outputnode.bold_mask",
                                  "coeff2epi_wf", "inputnode.target_mask"),
                             Edge("coeff2epi_wf", "outputnode.fmap_coeff",
                                  "unwarp_wf", "inputnode.fmap_coeff"),
                             Edge("enhance_boldref_wf", "outputnode.boldref",
                                  "unwarp_wf", "inputnode.distorted_ref"),
                             Edge("enhance_boldref_wf", "outputnode.boldref",
                                  "unwarp_wf", "inputnode.distorted"),
                             Edge("unwarp_wf", "outputnode.corrected_ref",
                                  "regref_buffer", "boldref"),
                             Edge("unwarp_wf", "outputnode.corrected_mask",
                                  "regref_buffer", "boldmask")>>)
                 IN IF g4.err # "none" THEN g4
                    ELSE [g5 EXCEPT !.pc = "stage4"]
            ELSE LET g1 == Connect(f4, <<
                             Edge("enhance_boldref_wf", "outputnode.boldref",
                                  "regref_buffer", "boldref"),
                             Edge("enhance_boldref_wf", "outputnode.bold_mask",
                                  "regref_buffer", "boldmask")>>)
                 IN [g1 EXCEPT !.pc = "stage4"]
    ELSE LET f1 == Log(f, "info",
                       "Found coregistration reference - skipping Stage 3")
             f2 == Assign(f1, "regref_buffer", "boldref",
                          a.precomputed["coreg_boldref"])
         IN [f2 EXCEPT !.pc = "stage4"]

\* lines 327-374: the arguments of init_bold_reg_wf read freesurfer, a name
\* the function never binds, so the compute branch ends at line 354
Stage4Op(a, f) ==
    IF "boldref2anat" \notin DOMAIN transforms(a)
    THEN LET f1 == IF f.has_fieldmap
                   THEN OutputSelect(
                            Log(f, "info",
                                "Stage 3A: Susceptibility correcting boldref"),
                            "output_select@331")
                   ELSE Connect(
                            Log(f, "info",
                                "No fieldmaps to apply - skipping Stage 3A"),
                            <<Edge("hmcref_buffer", "boldref",
                                   "regref_buffer", "boldref")>>)
         IN IF f1.err # "none" THEN f1
            ELSE IF "freesurfer" \notin BoundNames
            THEN Fail(f1, "NameError: freesurfer")
            ELSE IF "mem_gb" \notin BoundNames
            THEN Fail(f1, "NameError: mem_gb")
            ELSE LET f2 == Create(f1, "bold_reg_wf", "bold_reg_wf")
                     f3 == Connect(f2, <<
                             Edge("regref_buffer", "boldref",
                                  "bold_reg_wf", "inputnode.ref_bold_brain"),
                             Edge("inputnode", "t1w_dseg",
                                  "bold_reg_wf", "inputnode.t1w_dseg"),
                             Edge("inputnode", "subjects_dir",
                                  "bold_reg_wf", "inputnode.subjects_dir"),
                             Edge("inputnode", "subject_id",
                                  "bold_reg_wf", "inputnode.subject_id"),
                             Edge("inputnode", "fsnative2t1w_xfm",
                                  "bold_reg_wf", "inputnode.fsnative2t1w_xfm")>>)
                 IN [f3 EXCEPT !.pc = "return"]
    ELSE [f EXCEPT !.pc = "return"]

\* line 376: return workflow
ReturnOp(a, f) == [f EXCEPT !.pc = "done"]

\* the block the call is at
Step(a, f) ==
    CASE f.pc = "collect" -> CollectFilesOp(a, f)
      [] f.pc = "estimator" -> SelectEstimatorOp(a, f)
      [] f.pc = "buffers" -> CreateBuffersOp(a, f)
      [] f.pc = "stage1" -> Stage1Op(a, f)
      [] f.pc = "stage2" -> Stage2Op(a, f)
      [] f.pc = "stage3" -> Stage3Op(a, f)
      [] f.pc = "stage4" -> Stage4Op(a, f)
      [] f.pc = "return" -> ReturnOp(a, f)
      [] OTHER -> f

\* the whole call, from its arguments to its return or its exception
init_bold_fit_wf(a) ==
    Step(a, Step(a, Step(a, Step(a, Step(a, Step(a, Step(a, Step(a,
        InitFrame(a)))))))))

----------------------------------------------------------------------------
(* init_bold_fit_wf as a state machine *)

EstimatorIds == {"fmap0", "fmap1"}

\* B0FieldSource of the bold files: absent, one identifier, or a list
FieldSources ==
    {None, Some(Scalar("fmap0")), Some(List(<<"fmap0", "fmap1">>)),
     Some(List(<<"fmap1", "fmap0">>))}

BoldFile(e, b0) ==
    File(0, e, "bold", [EchoTime |-> Some(IF e = 0 THEN 1 ELSE e),
                        B0FieldSource |-> b0])

\* bold_series: a single path without echo entity, or the echoes n..1 of a
\* multi-echo series as a list
BoldSeries ==
    {Scalar(BoldFile(0, b0)) : b0 \in FieldSources}
        \cup {List([i \in 1..n |-> BoldFile(n + 1 - i, b0)]) :
                n \in 1..MaxIndex, b0 \in FieldSources}

\* answers of the layout to the sbref query: none, or the echoes n..1
SbrefSeries ==
    {[i \in 1..n |-> File(0, n + 1 - i, "sbref", EchoMeta(Some(n + 1 - i)))] :
        n \in 0..MaxIndex}

PrecomputedPaths ==
    [hmc_boldref |-> "desc-hmc_boldref.nii.gz",
     hmc_xforms |-> "from-orig_to-boldref_mode-image_desc-hmc_xfm.txt",
     coreg_boldref |-> "desc-coreg_boldref.nii.gz"]

TransformPaths ==
    [boldref2anat |-> "from-boldref_to-anat_xfm.txt",
     boldref2fmap |-> "from-boldref_to-fmap_xfm.txt"]

Restrict(d, keys) == [k \in keys |-> d[k]]

WorkflowInputs ==
    {[bold_series |-> b,
      precomputed |-> Restrict(PrecomputedPaths, pk),
      transforms |-> t,
      has_fieldmap |-> hf,
      bids_filters_sbref |-> EmptyDict,
      estimators |-> reg,
      layout |-> [sbrefs |-> sb, intended_for |-> it]] :
        b \in BoldSeries,
        pk \in SUBSET DOMAIN PrecomputedPaths,
        t \in {None} \cup {Some(Restrict(TransformPaths, tk)) :
                              tk \in SUBSET DOMAIN TransformPaths},
        hf \in BOOLEAN,
        reg \in SUBSET EstimatorIds,
        sb \in SbrefSeries,
        it \in {<<>>, <<"fmap1">>}}

Init ==
    /\ args \in WorkflowInputs
    /\ pc = "collect"
    /\ ret = Ok(<<>>)
    /\ bold_files = <<>>
    /\ sbref_files = <<>>
    /\ has_fieldmap = args.has_fieldmap
    /\ estimator_key = None
    /\ created = <<>>
    /\ wfnodes = {}
    /\ edges = <<>>
    /\ assigned = <<>>
    /\ log = <<>>
    /\ err = "none"

Commit(f) ==
    /\ pc' = f.pc
    /\ bold_files' = f.bold_files
    /\ sbref_files' = f.sbref_files
    /\ has_fieldmap' = f.has_fieldmap
    /\ estimator_key' = f.estimator_key
    /\ created' = f.created
    /\ wfnodes' = f.wfnodes
    /\ edges' = f.edges
    /\ assigned' = f.assigned
    /\ log' = f.log
    /\ err' = f.err
    /\ UNCHANGED <<args, ret>>

CollectFiles == pc = "collect" /\ Commit(CollectFilesOp(args, Frame))

SelectEstimator == pc = "estimator" /\ Commit(SelectEstimatorOp(args, Frame))

CreateBuffers == pc = "buffers" /\ Commit(CreateBuffersOp(args, Frame))

Stage1 == pc = "stage1" /\ Commit(Stage1Op(args, Frame))

Stage2 == pc = "stage2" /\ Commit(Stage2Op(args, Frame))

Stage3 == pc = "stage3" /\ Commit(Stage3Op(args, Frame))

Stage4 == pc = "stage4" /\ Commit(Stage4Op(args, Frame))

Return == pc = "return" /\ Commit(ReturnOp(args, Frame))

Next ==
    \/ CollectFiles
    \/ SelectEstimator
    \/ CreateBuffers
    \/ Stage1
    \/ Stage2
    \/ Stage3
    \/ Stage4
    \/ Return

Spec == Init /\ [][Next]_vars

\* the call has ended, by return or by exception
Terminated == pc \in {"done", "failed"}

----------------------------------------------------------------------------
(* Vocabulary of the properties *)

\* the call failed while collecting the bold and sbref files (lines 96-112)
CollectFailed ==
    err \in {"TypeError: EchoTime", "KeyError: echo", "TypeError: update",
             "IndexError: sbref_files[0]"}

ObjectsCreated == {created[i].obj : i \in 1..Len(created)}

EdgeSet == Range(edges)

\* edges and direct assignments that bind field fld of node obj
EdgesInto(es, obj, fld) ==
    {i \in 1..Len(es) : es[i].dst = obj /\ es[i].inp = fld}

AssignmentsTo(as, obj, fld) ==
    {i \in 1..Len(as) : as[i].obj = obj /\ as[i].field = fld}

\* names of the fields of node obj that an edge or an assignment binds
BoundPorts(es, as, obj) ==
    {es[i].inp : i \in {j \in 1..Len(es) : es[j].dst = obj}}
        \cup {as[i].field : i \in {j \in 1..Len(as) : as[j].obj = obj}}

\* the sub-workflows that compute a stage
ComputeObjects ==
    {"hmc_boldref_wf", "bold_hmc_wf", "enhance_boldref_wf", "coeff2epi_wf",
     "unwarp_wf", "bold_reg_wf"}

AllPrecomputed ==
    /\ DOMAIN args.precomputed = DOMAIN PrecomputedPaths
    /\ "boldref2anat" \in DOMAIN transforms(args)

NonePrecomputed ==
    /\ DOMAIN args.precomputed = {}
    /\ "boldref2anat" \notin DOMAIN transforms(args)

\* identifiers get_estimator returns for the first bold file, and those of
\* them that are registered
Discovered == get_estimator(args.layout, bold_files[1])

SurvivorPositions == {i \in 1..Len(Discovered) : Discovered[i] \in args.estimators}

WarningLogged == \E i \in 1..Len(log) : log[i].level = "warning"

CriticalLogged == \E i \in 1..Len(log) : log[i].level = "critical"

OutputSelects == {"output_select@269", "output_select@331"}

\* C1: with nothing precomputed, construction completes and the returned
\* graph holds the four compute stages wired 1 -> 2 -> 3 -> 4 through the
\* buffers (stated for calls whose file collection succeeded).
C1_EmptyPrecomputedWiresAllStages ==
    (Terminated /\ NonePrecomputed /\ ~CollectFailed) =>
        /\ pc = "done"
        /\ {"hmc_boldref_wf", "bold_hmc_wf", "enhance_boldref_wf",
            "bold_reg_wf"} \subseteq wfnodes
        /\ \E e \in EdgeSet : e.src = "hmc_boldref_wf" /\ e.dst = "hmcref_buffer"
        /\ Edge("hmcref_buffer", "boldref",
                "bold_hmc_wf", "inputnode.raw_ref_image") \in EdgeSet
        /\ Edge("hmcref_buffer", "bold_file",
                "bold_hmc_wf", "inputnode.bold_file") \in EdgeSet
        /\ \E e \in EdgeSet : e.src = "hmcref_buffer" /\ e.dst = "fmapref_buffer"
        /\ \E e \in EdgeSet : e.src = "fmapref_buffer" /\ e.dst = "enhance_boldref_wf"
        /\ \E e \in EdgeSet : e.dst = "regref_buffer"
                /\ e.src \in {"enhance_boldref_wf", "unwarp_wf"}
        /\ Edge("regref_buffer", "boldref",
                "bold_reg_wf", "inputnode.ref_bold_brain") \in EdgeSet

\* C2: when hmc_boldref, hmc_xforms, coreg_boldref and
\* transforms.boldref2anat are all precomputed, no compute sub-workflow is
\* ever constructed, no edge feeds hmcref_buffer.boldref,
\* hmc_buffer.hmc_xforms or regref_buffer.boldref, the call returns once the
\* files are collected, and the returned graph has each of the three fields
\* assigned exactly once, with the precomputed entry.
C2_AllPrecomputedOnlyPassThrough ==
    AllPrecomputed =>
        /\ ObjectsCreated \cap ComputeObjects = {}
        /\ wfnodes \cap ComputeObjects = {}
        /\ EdgesInto(edges, "hmcref_buffer", "boldref") = {}
        /\ EdgesInto(edges, "hmc_buffer", "hmc_xforms") = {}
        /\ EdgesInto(edges, "regref_buffer", "boldref") = {}
        /\ (Terminated /\ ~CollectFailed) => pc = "done"
        /\ pc = "done" =>
            \A b \in {<<"hmcref_buffer", "boldref", "hmc_boldref">>,
                      <<"hmc_buffer", "hmc_xforms", "hmc_xforms">>,
                      <<"regref_buffer", "boldref", "coreg_boldref">>} :
                /\ Cardinality(AssignmentsTo(assigned, b[1], b[2])) = 1
                /\ \A i \in AssignmentsTo(assigned, b[1], b[2]) :
                       assigned[i].value = args.precomputed[b[3]]

\* C2 witness: a returned graph with everything precomputed and the
\* fieldmap path still open
C2_Witness ==
    /\ pc = "done"
    /\ AllPrecomputed
    /\ has_fieldmap
    /\ AssignmentsTo(assigned, "regref_buffer", "boldref") # {}

\* C3: in every returned graph each declared field of each buffer is bound
\* exactly once, by one edge or by one assignment, and every edge into a
\* buffer ends on a field the buffer declares.
C3_BuffersBoundExactlyOnce ==
    pc = "done" =>
        /\ \A b \in Buffers : \A fld \in DeclaredInputs(b) :
             Cardinality(EdgesInto(edges, b, fld))
                + Cardinality(AssignmentsTo(assigned, b, fld)) = 1
        /\ \A e \in EdgeSet :
             e.dst \in Buffers => e.inp \in DeclaredInputs(e.dst)
\* the same call with has_fieldmap=False
WithoutFieldmap == init_bold_fit_wf([args EXCEPT !.has_fieldmap = FALSE])

NotCritical(entry) == entry.level # "critical"

EchoEntityPresent ==
    \A i \in 1..Len(listify(args.bold_series)) :
        "echo" \in DOMAIN listify(args.bold_series)[i].ent

\* the value hmcref_buffer delivers on its boldref field
HmcBoldref == Scalar("hmcref_buffer.boldref")

\* C5: when the layout answers the sbref query with no file, construction
\* still completes (stated for calls that precompute stages 2 and 4), and the
\* reference _select_ref picks is the motion-correction reference; with a
\* non-empty answer it is the first sbref.
C5_NoSbrefIsNotAnError ==
    (/\ Terminated
     /\ EchoEntityPresent
     /\ have_hmc(args)
     /\ "boldref2anat" \in DOMAIN transforms(args)) =>
        /\ pc = "done"
        /\ sbref_files = <<>> =>
             _select_ref(List(sbref_files), HmcBoldref).val = "hmcref_buffer.boldref"
        /\ sbref_files # <<>> =>
             _select_ref(List(sbref_files), HmcBoldref).val = sbref_files[1]

\* the call with one precomputed artifact added or removed
Toggled(key) ==
    init_bold_fit_wf(
        [args EXCEPT !.precomputed =
            IF key \in DOMAIN @
            THEN Restrict(@, DOMAIN @ \ {key})
            ELSE Restrict(PrecomputedPaths, DOMAIN @ \cup {key})])

\* C6: for stages 1 to 3, the fields bound on the stage's buffer are the
\* same whether the stage is skipped or computed: whenever the call and the
\* call with the stage's artifact toggled both return, the two graphs bind
\* the same field names on hmcref_buffer, hmc_buffer and regref_buffer.
C6_SamePortsOnSkipAndCompute ==
    pc = "done" =>
        \A s \in {<<"hmc_boldref", "hmcref_buffer">>,
                  <<"hmc_xforms", "hmc_buffer">>,
                  <<"coreg_boldref", "regref_buffer">>} :
            Toggled(s[1]).pc = "done" =>
                BoundPorts(edges, assigned, s[2])
                    = BoundPorts(Toggled(s[1]).edges, Toggled(s[1]).assigned, s[2])

\* the fieldmap path is decided once line 135 is passed
PastEstimator ==
    pc \in {"buffers", "stage1", "stage2", "stage3", "stage4", "return", "done"}

\* has_fieldmap stays true exactly when the caller passed true and some
\* identifier returned by get_estimator is registered; every key given to an
\* output_select node is the first registered identifier in discovery order
FieldmapPathAndKey ==
    /\ PastEstimator =>
         (has_fieldmap <=> (args.has_fieldmap /\ SurvivorPositions # {}))
    /\ \A i \in 1..Len(assigned) :
         (assigned[i].obj \in OutputSelects /\ assigned[i].field = "key") =>
            \E p \in SurvivorPositions :
                /\ assigned[i].value = Discovered[p]
                /\ \A q \in SurvivorPositions : p <= q

\* C7 as stated: the fieldmap path is taken iff the caller passed
\* has_fieldmap=True and a returned identifier is registered, output_select
\* gets the first registered identifier, and whenever the path is taken with
\* more than one registered identifier the returned call has logged a warning.
C7_FirstEstimatorWithWarning ==
    /\ FieldmapPathAndKey
    /\ (pc = "done" /\ has_fieldmap /\ Cardinality(SurvivorPositions) > 1) =>
            WarningLogged

\* C7 as amended: the warning belongs to the construction of an
\* output_select node; a call that constructs none (stages 3 and 4 both
\* skipped) logs no warning however many identifiers are registered.
C7_FirstEstimatorWarnsOnSelect ==
    /\ FieldmapPathAndKey
    /\ (ObjectsCreated \cap OutputSelects # {}
            /\ Cardinality(SurvivorPositions) > 1) => WarningLogged
    /\ (ObjectsCreated \cap OutputSelects = {}) => ~WarningLogged
    /\ (PastEstimator /\ Cardinality(SurvivorPositions) <= 1) => ~WarningLogged

\* C7 witness: a returned graph whose output_select got the first of two
\* registered identifiers, with a warning
C7_Witness ==
    /\ pc = "done"
    /\ has_fieldmap
    /\ Discovered = <<"fmap1", "fmap0">>
    /\ WarningLogged
    /\ \E i \in 1..Len(assigned) :
         /\ assigned[i].obj = "output_select@269"
         /\ assigned[i].field = "key"
         /\ assigned[i].value = "fmap1"

\* C10: no two distinct objects constructed during a call carry the same
\* node name; hmc_buffer and fmapreg_buffer are named differently and at
\* most one output_select is constructed.
C10_NodeNamesDistinct ==
    \A i, j \in 1..Len(created) :
        i # j => created[i].name # created[j].name

====
